---- MODULE Spec2Model ----
(***************************************************************************)
(* Model of invoicing/models.py: the numbering of invoices in              *)
(* Invoice.save (_get_next_number, _get_full_number), the resolution of an *)
(* item's tax rate in Item.save (Invoice.get_tax_rate, taxation_policy)    *)
(* and the derived values Invoice.vat_summary, Invoice.vat and             *)
(* Invoice.is_supplier_vat_id_visible.                                     *)
(*                                                                         *)
(* An optional field (None in Python) is a set with at most one element:   *)
(* None is {} and the value v is {v}.  Strings are strings.                *)
(***************************************************************************)
EXTENDS Integers, Sequences, FiniteSets, TLC

\* How many Invoice objects a behaviour of Spec or ConcurrentSpec constructs.
MaxInvoices == 2

\* How many Invoice objects a behaviour of NumberingSpec constructs.
MaxNumbered == 3

\* How many Item objects a behaviour of TaxSpec constructs.
MaxItems == 2

None == {}

Some(v) == {v}

\* The value of an optional field that is set.
The(o) == CHOOSE v \in o : TRUE

(***************************************************************************)
(* Field domains.                                                          *)
(***************************************************************************)
\* Invoice.TYPE: two of its four choices.
TYPE == {"INVOICE", "PROFORMA"}

\* Invoice.COUNTER_PERIOD.
COUNTER_PERIOD == {"DAILY", "MONTHLY", "YEARLY"}

\* Values settings.INVOICING_COUNTER_PERIOD takes: the three choices and one
\* value that is none of them.
PeriodSettings == COUNTER_PERIOD \cup {"WEEKLY"}

Date(y, m, d) == [year |-> y, month |-> m, day |-> d]

\* Values of a DateField: two days of a month, two months of a year, two years.
Dates == {Date(2023, 1, 1), Date(2024, 1, 1), Date(2024, 1, 2), Date(2024, 2, 1)}

\* The dates of Spec, where invoices are saved again and again: two years.
ResaveDates == {Date(2023, 1, 1), Date(2024, 1, 1)}

\* The default of settings.INVOICING_NUMBER_FORMAT.
DefaultFormat == "{{ invoice.date_tax_point|date:'Y' }}/{{ invoice.number }}"

\* A template naming no field of the invoice: Django renders an unknown
\* variable as the empty string.
BlankFormat == "{{ invoice.no }}"

\* A template Django cannot compile (an unknown block tag): Template() raises.
BrokenFormat == "{% invoice.number %}"

FormatSettings == {DefaultFormat, BlankFormat, BrokenFormat}

\* Values of supplier.get('country_code') and customer.get('country_code'):
\* none, two countries of the EU, one outside it.
SupplierCountries == {None, Some("SK"), Some("US")}

CustomerCountries == {None, Some("SK"), Some("CZ"), Some("US")}

\* Values of customer.get('vat_id', None).
VatIds == {None, Some("CZ12345678")}

\* Values of settings.INVOICING_TAXATION_POLICY: unset, or the dotted name of
\* a policy class.
PolicySettings == {None, Some("shop.taxation.FlatPolicy")}

\* Tax rates, in percent, a caller gives an item: none, zero, a positive one.
GivenRates == {None, Some(0), Some(20)}

\* Unit prices, in cents, a caller gives an item.
UnitPrices == {0, 1000}

\* Item.quantity: default=1.
DefaultQuantity == 1

\* Item.discount: default=0.
DefaultDiscount == 0

\* The unit price, and the quantities and discounts (in percent), of
\* SummarySpec: the discounted amount of an item is not always a whole number
\* of cents.
SummaryPrices == {999}

Quantities == {1, 2}

Discounts == {0, 50}

(***************************************************************************)
(* State.                                                                  *)
(***************************************************************************)
VARIABLES
    settings,   \* django.conf.settings: the three INVOICING_ settings read here
    table,      \* the rows of invoicing_invoices, by primary key
    objs,       \* the Invoice objects in memory: the fields save() itself assigns
    outcome,    \* per Invoice object, the exception its last save() raised ("": none)
    frame,      \* per Invoice object, the save() running on it: self and the line reached
    invoice,    \* the Invoice the items belong to: the fields the tax rules read
    items,      \* the Item objects in memory, in the order of their construction
    item_rows   \* the rows of invoicing_items of that invoice, by primary key

vars == <<settings, table, objs, outcome, frame, invoice, items, item_rows>>

\* The variables of the items and the tax rules.
tax_vars == <<invoice, items, item_rows>>

\* The columns of invoicing_invoices the numbering reads or writes.
Row(self) == [type |-> self.type, date_issue |-> self.date_issue,
              date_tax_point |-> self.date_tax_point,
              number |-> self.number, full_number |-> self.full_number]

\* What an Invoice object keeps between two saves; its type and dates are
\* assigned by the caller before each save.
Kept(self) == [number |-> self.number, full_number |-> self.full_number]

(***************************************************************************)
(* Invoice._get_next_number                                                *)
(***************************************************************************)
\* Invoice.objects.filter(date_issue=important_date, type=self.type)
FilterDaily(rows, important_date, type) ==
    {pk \in DOMAIN rows : /\ rows[pk].date_issue = important_date
                          /\ rows[pk].type = type}

\* Invoice.objects.filter(date_issue__year=important_date.year, type=self.type)
FilterYearly(rows, important_date, type) ==
    {pk \in DOMAIN rows : /\ rows[pk].date_issue.year = important_date.year
                          /\ rows[pk].type = type}

\* Mutant: the monthly filter without self.type.
FilterMonthly_any_type(rows, important_date, type) ==
    {pk \in DOMAIN rows : /\ rows[pk].date_issue.year = important_date.year
                          /\ rows[pk].date_issue.month = important_date.month}

\* Invoice.objects.filter(date_issue__year=..., date_issue__month=..., type=self.type)
FilterMonthly(rows, important_date, type) ==
    {pk \in DOMAIN rows : /\ rows[pk].date_issue.year = important_date.year
                          /\ rows[pk].date_issue.month = important_date.month
                          /\ rows[pk].type = type}

\* Mutant: the window is that of the issue date.
important_date_issue(self) == self.date_issue

\* important_date = self.date_tax_point
important_date(self) == self.date_tax_point

\* The if/elif branches on invoice_counter_reset; the else branch raises.
PeriodRecognized(invoice_counter_reset) == invoice_counter_reset \in COUNTER_PERIOD

relative_invoices(rows, self, invoice_counter_reset) ==
    IF invoice_counter_reset = "DAILY"
    THEN FilterDaily(rows, important_date(self), self.type)
    ELSE IF invoice_counter_reset = "YEARLY"
    THEN FilterYearly(rows, important_date(self), self.type)
    ELSE FilterMonthly(rows, important_date(self), self.type)

\* aggregate(Max('number'))['number__max']: None over no rows.
AggregateMax(rows, pks) ==
    IF pks = {} THEN None
    ELSE Some(CHOOSE n \in {The(rows[pk].number) : pk \in pks} :
                 \A pk \in pks : The(rows[pk].number) <= n)

\* number__max or 0
last_number(rows, self, invoice_counter_reset) ==
    LET number__max == AggregateMax(rows, relative_invoices(rows, self, invoice_counter_reset))
    IN  IF number__max = None \/ number__max = Some(0) THEN 0 ELSE The(number__max)

\* return last_number + 1
get_next_number(rows, self, invoice_counter_reset) ==
    last_number(rows, self, invoice_counter_reset) + 1

(***************************************************************************)
(* Invoice._get_full_number                                                *)
(***************************************************************************)
\* Template(number_format) compiles.
TemplateCompiles(number_format) == number_format # BrokenFormat

\* {{ invoice.number }}: Django renders None as the text None.
NumberText(number) == IF number = None THEN "None" ELSE ToString(The(number))

\* Template(number_format).render(Context({'invoice': self}))
get_full_number(self, number_format) ==
    IF number_format = DefaultFormat
    THEN ToString(self.date_tax_point.year) \o "/" \o NumberText(self.number)
    ELSE ""

(***************************************************************************)
(* Invoice.save, statement by statement.  Each statement gives the object  *)
(* after it and the exception it raised ("" if none).                      *)
(***************************************************************************)
\* if self.number in EMPTY_VALUES: self.number = self._get_next_number()
AllocateNumber(rows, self, cfg) ==
    IF self.number # None
    THEN [self |-> self, exc |-> ""]
    ELSE IF ~PeriodRecognized(cfg.INVOICING_COUNTER_PERIOD)
    THEN [self |-> self, exc |-> "ImproperlyConfigured"]
    ELSE [self |-> [self EXCEPT !.number =
                       Some(get_next_number(rows, self, cfg.INVOICING_COUNTER_PERIOD))],
          exc |-> ""]

\* Mutant: full_number is rendered on every save.
AllocateFullNumber_always(self, cfg) ==
    IF ~TemplateCompiles(cfg.INVOICING_NUMBER_FORMAT)
    THEN [self |-> self, exc |-> "TemplateSyntaxError"]
    ELSE [self |-> [self EXCEPT !.full_number =
                       get_full_number(self, cfg.INVOICING_NUMBER_FORMAT)],
          exc |-> ""]

\* if self.full_number in EMPTY_VALUES: self.full_number = self._get_full_number()
AllocateFullNumber(self, cfg) ==
    IF self.full_number # ""
    THEN [self |-> self, exc |-> ""]
    ELSE IF ~TemplateCompiles(cfg.INVOICING_NUMBER_FORMAT)
    THEN [self |-> self, exc |-> "TemplateSyntaxError"]
    ELSE [self |-> [self EXCEPT !.full_number =
                       get_full_number(self, cfg.INVOICING_NUMBER_FORMAT)],
          exc |-> ""]

Put(f, k, v) == [x \in DOMAIN f \cup {k} |-> IF x = k THEN v ELSE f[x]]

Drop(f, k) == [x \in DOMAIN f \ {k} |-> f[x]]

\* super(Invoice, self).save(**kwargs): the row is inserted, or updated.
Persist(rows, pk, self) == Put(rows, pk, Row(self))

\* The object save() is called on: a new Invoice(...), its number and
\* full_number at their empty defaults, or a constructed one; its type and
\* dates are those the caller assigned.
Receiver(pk, type, date_issue, date_tax_point) ==
    [type |-> type, date_issue |-> date_issue, date_tax_point |-> date_tax_point,
     number |-> IF pk \in DOMAIN objs THEN objs[pk].number ELSE None,
     full_number |-> IF pk \in DOMAIN objs THEN objs[pk].full_number ELSE ""]

\* Objects are constructed in the order of their keys, and one save() runs
\* on an object at a time.
MayCall(pk) ==
    /\ pk = 1 \/ (pk - 1) \in DOMAIN objs
    /\ pk \notin DOMAIN frame

(***************************************************************************)
(* Serialized saves: a whole Invoice.save is one step.                     *)
(***************************************************************************)
\* Mutant: full_number is rendered before the number is allocated.
save_full_number_first(pk, type, date_issue, date_tax_point) ==
    LET self0 == Receiver(pk, type, date_issue, date_tax_point)
        b == AllocateFullNumber(self0, settings)
        a == AllocateNumber(table, b.self, settings)
    IN  /\ MayCall(pk)
        /\ frame = <<>>
        /\ IF b.exc # ""
           THEN /\ objs' = Put(objs, pk, Kept(b.self))
                /\ outcome' = Put(outcome, pk, b.exc)
                /\ table' = table
           ELSE IF a.exc # ""
           THEN /\ objs' = Put(objs, pk, Kept(a.self))
                /\ outcome' = Put(outcome, pk, a.exc)
                /\ table' = table
           ELSE /\ objs' = Put(objs, pk, Kept(a.self))
                /\ outcome' = Put(outcome, pk, "")
                /\ table' = Persist(table, pk, a.self)
        /\ UNCHANGED <<settings, frame>>
        /\ UNCHANGED tax_vars

save(pk, type, date_issue, date_tax_point) ==
    LET self0 == Receiver(pk, type, date_issue, date_tax_point)
        a == AllocateNumber(table, self0, settings)
        b == AllocateFullNumber(a.self, settings)
    IN  /\ MayCall(pk)
        /\ frame = <<>>
        /\ IF a.exc # ""
           THEN /\ objs' = Put(objs, pk, Kept(a.self))
                /\ outcome' = Put(outcome, pk, a.exc)
                /\ table' = table
           ELSE IF b.exc # ""
           THEN /\ objs' = Put(objs, pk, Kept(b.self))
                /\ outcome' = Put(outcome, pk, b.exc)
                /\ table' = table
           ELSE /\ objs' = Put(objs, pk, Kept(b.self))
                /\ outcome' = Put(outcome, pk, "")
                /\ table' = Persist(table, pk, b.self)
        /\ UNCHANGED <<settings, frame>>
        /\ UNCHANGED tax_vars

\* settings.INVOICING_COUNTER_PERIOD is set to another value.
ConfigurePeriod(p) ==
    /\ p # settings.INVOICING_COUNTER_PERIOD
    /\ settings' = [settings EXCEPT !.INVOICING_COUNTER_PERIOD = p]
    /\ UNCHANGED <<table, objs, outcome, frame>>
    /\ UNCHANGED tax_vars

\* settings.INVOICING_NUMBER_FORMAT is set to another value.
ConfigureFormat(f) ==
    /\ f # settings.INVOICING_NUMBER_FORMAT
    /\ settings' = [settings EXCEPT !.INVOICING_NUMBER_FORMAT = f]
    /\ UNCHANGED <<table, objs, outcome, frame>>
    /\ UNCHANGED tax_vars

\* An Invoice() whose billing data is not filled in yet, and no item.
InitTax ==
    /\ invoice = [supplier_country |-> None, customer_country |-> None,
                  customer_vat_id |-> None]
    /\ items = <<>>
    /\ item_rows = <<>>

\* The defaults of the settings, an empty table, no object constructed.
Init ==
    /\ settings = [INVOICING_COUNTER_PERIOD |-> "YEARLY",
                   INVOICING_NUMBER_FORMAT |-> DefaultFormat,
                   INVOICING_TAXATION_POLICY |-> None]
    /\ table = <<>>
    /\ objs = <<>>
    /\ outcome = <<>>
    /\ frame = <<>>
    /\ InitTax

Next ==
    \/ \E pk \in 1..MaxInvoices, type \in TYPE,
          date_issue \in ResaveDates, date_tax_point \in ResaveDates :
          save(pk, type, date_issue, date_tax_point)
    \/ \E p \in PeriodSettings : ConfigurePeriod(p)
    \/ \E f \in FormatSettings : ConfigureFormat(f)

Spec == Init /\ [][Next]_vars

(***************************************************************************)
(* First saves only, under one configured period: every Invoice object is  *)
(* saved until it is stored.                                               *)
(***************************************************************************)
first_save(pk, type, date_issue, date_tax_point) ==
    /\ pk \notin DOMAIN table
    /\ save(pk, type, date_issue, date_tax_point)

InitNumbering ==
    /\ settings \in [INVOICING_COUNTER_PERIOD : PeriodSettings,
                     INVOICING_NUMBER_FORMAT : {DefaultFormat},
                     INVOICING_TAXATION_POLICY : {None}]
    /\ table = <<>>
    /\ objs = <<>>
    /\ outcome = <<>>
    /\ frame = <<>>
    /\ InitTax

NextNumbering ==
    \E pk \in 1..MaxNumbered, type \in TYPE, date_issue \in Dates, date_tax_point \in Dates :
        first_save(pk, type, date_issue, date_tax_point)

NumberingSpec == InitNumbering /\ [][NextNumbering]_vars

(***************************************************************************)
(* Concurrent saves of new invoices: the statements of Invoice.save of     *)
(* different objects interleave; nothing in save() locks the table.        *)
(***************************************************************************)
\* save() is entered on a new object and runs lines 241-242.
save_number(pk, type, date_issue, date_tax_point) ==
    LET a == AllocateNumber(table, Receiver(pk, type, date_issue, date_tax_point), settings)
    IN  /\ MayCall(pk)
        /\ pk \notin DOMAIN objs
        /\ objs' = Put(objs, pk, Kept(a.self))
        /\ IF a.exc # ""
           THEN /\ outcome' = Put(outcome, pk, a.exc)
                /\ frame' = frame
           ELSE /\ outcome' = outcome
                /\ frame' = Put(frame, pk, [self |-> a.self, line |-> 244])
        /\ UNCHANGED <<settings, table>>
        /\ UNCHANGED tax_vars

\* Lines 244-245.
save_full_number(pk) ==
    /\ pk \in DOMAIN frame
    /\ frame[pk].line = 244
    /\ LET b == AllocateFullNumber(frame[pk].self, settings)
       IN  /\ objs' = Put(objs, pk, Kept(b.self))
           /\ IF b.exc # ""
              THEN /\ outcome' = Put(outcome, pk, b.exc)
                   /\ frame' = Drop(frame, pk)
              ELSE /\ outcome' = outcome
                   /\ frame' = Put(frame, pk, [self |-> b.self, line |-> 247])
    /\ UNCHANGED <<settings, table>>
    /\ UNCHANGED tax_vars

\* Line 247.
save_super(pk) ==
    /\ pk \in DOMAIN frame
    /\ frame[pk].line = 247
    /\ table' = Persist(table, pk, frame[pk].self)
    /\ outcome' = Put(outcome, pk, "")
    /\ frame' = Drop(frame, pk)
    /\ UNCHANGED <<settings, objs>>
    /\ UNCHANGED tax_vars

NextConcurrent ==
    \/ \E pk \in 1..MaxInvoices, type \in TYPE, date_issue \in Dates, date_tax_point \in Dates :
          save_number(pk, type, date_issue, date_tax_point)
    \/ \E pk \in 1..MaxInvoices : save_full_number(pk)
    \/ \E pk \in 1..MaxInvoices : save_super(pk)

ConcurrentSpec == InitNumbering /\ [][NextConcurrent]_vars

(***************************************************************************)
(* invoicing.taxation and invoicing.utils, which models.py imports.        *)
(***************************************************************************)
\* The class models.py imports from invoicing.taxation.eu, by its dotted name.
EUTaxationPolicy == "invoicing.taxation.eu.EUTaxationPolicy"

\* TaxationPolicy.get_default_tax(): the global default rate, in percent.
get_default_tax == 20

\* EUTaxationPolicy.is_in_EU(country_code)
is_in_EU(country_code) == country_code \in {"SK", "CZ"}

\* EUTaxationPolicy.get_tax_rate(vat_id, customer_country_code,
\* supplier_country_code): 0 for a customer with a VAT id in another country
\* of the EU, the default rate otherwise and on absent input.
EUTaxationPolicy_get_tax_rate(vat_id, customer_country_code, supplier_country_code) ==
    IF /\ vat_id # None
       /\ customer_country_code # None
       /\ supplier_country_code # None
       /\ customer_country_code # supplier_country_code
       /\ is_in_EU(The(customer_country_code))
    THEN 0
    ELSE get_default_tax

\* The rate of the policy an application configures: one flat rate, in percent.
FlatPolicy_get_tax_rate(vat_id, customer_country_code, supplier_country_code) == 10

\* import_name(name): the class of that dotted name.
import_name(name) == name

\* taxation_policy.get_tax_rate(...) of the class found.
policy_get_tax_rate(policy, vat_id, customer_country_code, supplier_country_code) ==
    IF policy = EUTaxationPolicy
    THEN EUTaxationPolicy_get_tax_rate(vat_id, customer_country_code, supplier_country_code)
    ELSE FlatPolicy_get_tax_rate(vat_id, customer_country_code, supplier_country_code)

(***************************************************************************)
(* Invoice.taxation_policy and Invoice.get_tax_rate                        *)
(***************************************************************************)
\* Mutant: the supplier's country is looked at before the setting.
taxation_policy_EU_first(self, cfg) ==
    IF self.supplier_country # None /\ is_in_EU(The(self.supplier_country))
    THEN Some(EUTaxationPolicy)
    ELSE IF cfg.INVOICING_TAXATION_POLICY # None
    THEN Some(import_name(The(cfg.INVOICING_TAXATION_POLICY)))
    ELSE None

taxation_policy(self, cfg) ==
    IF cfg.INVOICING_TAXATION_POLICY # None
    THEN Some(import_name(The(cfg.INVOICING_TAXATION_POLICY)))
    ELSE IF self.supplier_country # None /\ is_in_EU(The(self.supplier_country))
    THEN Some(EUTaxationPolicy)
    ELSE None

\* customer_country.code if customer_country else None, and the supplier's
\* likewise, are the optional fields themselves.
get_tax_rate(self, cfg) ==
    IF taxation_policy(self, cfg) # None
    THEN policy_get_tax_rate(The(taxation_policy(self, cfg)), self.customer_vat_id,
                             self.customer_country, self.supplier_country)
    ELSE get_default_tax

(***************************************************************************)
(* Invoice.vat_summary and Invoice.vat.  Amounts are in cents and rates in *)
(* whole percent; a base, which SQL computes exactly and does not round,   *)
(* is in hundredths of a cent.                                             *)
(***************************************************************************)
RECURSIVE Sum(_, _)
\* SUM(...) of SQL over the rows pks, f giving the summand of each row.
Sum(f, pks) ==
    IF pks = {} THEN 0
    ELSE LET pk == CHOOSE x \in pks : TRUE IN f[pk] + Sum(f, pks \ {pk})

\* ROUND(CAST(x AS numeric), 2) of an amount given in hundredths of a cent.
Round2(x) == (x + 50) \div 100

\* Mutant: the rows are matched to their group with tax_rate = rate, which
\* no row without a rate satisfies in SQL.
vat_summary_rated_only(rows) ==
    {LET group == {pk \in DOMAIN rows : rows[pk].tax_rate = rate}
     IN  [rate |-> rate,
          base |-> Sum([pk \in group |-> rows[pk].quantity * rows[pk].unit_price
                                         * (100 - rows[pk].discount)], group),
          vat |-> Some(Round2(Sum([pk \in group |->
                           rows[pk].quantity * rows[pk].unit_price * The(rate)], group)))]
     : rate \in {rows[pk].tax_rate : pk \in DOMAIN rows} \ {None}}

\* One row of the query per tax_rate (group by tax_rate): rate, base and vat;
\* the vat of the rows without a rate is NULL.
vat_summary(rows) ==
    {LET group == {pk \in DOMAIN rows : rows[pk].tax_rate = rate}
     IN  [rate |-> rate,
          base |-> Sum([pk \in group |-> rows[pk].quantity * rows[pk].unit_price
                                         * (100 - rows[pk].discount)], group),
          vat |-> IF rate = None THEN None
                  ELSE Some(Round2(Sum([pk \in group |->
                           rows[pk].quantity * rows[pk].unit_price * The(rate)], group)))]
     : rate \in {rows[pk].tax_rate : pk \in DOMAIN rows}}

\* vat += vat_rate['vat'] or 0, over the rows of the summary.
SumVat(summary) ==
    Sum([g \in summary |-> IF g.vat = None THEN 0 ELSE The(g.vat)], summary)

\* Mutant: without the test for the one group of undefined vat.
vat_always_summed(rows) == Some(SumVat(vat_summary(rows)))

\* Invoice.vat: None, or the amount.
vat(rows) ==
    IF Cardinality(vat_summary(rows)) = 1 /\ (\A g \in vat_summary(rows) : g.vat = None)
    THEN None
    ELSE Some(SumVat(vat_summary(rows)))

(***************************************************************************)
(* Invoice.is_supplier_vat_id_visible                                      *)
(***************************************************************************)
\* self.item_set.filter(tax_rate__gt=0).exists()
HasPositiveRate(rows) ==
    \E pk \in DOMAIN rows : rows[pk].tax_rate # None /\ The(rows[pk].tax_rate) > 0

is_supplier_vat_id_visible(self, rows) ==
    IF vat(rows) = None /\ self.supplier_country = self.customer_country
    THEN FALSE
    ELSE IF vat(rows) # Some(0) \/ HasPositiveRate(rows)
    THEN TRUE
    ELSE LET is_EU_customer == IF self.customer_country # None
                               THEN is_in_EU(The(self.customer_country))
                               ELSE FALSE
         IN  is_EU_customer /\ self.supplier_country # self.customer_country

(***************************************************************************)
(* The billing data of the invoice, the items and Item.save.               *)
(***************************************************************************)
\* self.supplier_country = supplier.get('country_code')
set_supplier_data(country_code) ==
    /\ country_code # invoice.supplier_country
    /\ invoice' = [invoice EXCEPT !.supplier_country = country_code]
    /\ UNCHANGED <<settings, table, objs, outcome, frame, items, item_rows>>

\* self.customer_country = customer.get('country_code');
\* self.customer_vat_id = customer.get('vat_id', None)
set_customer_data(country_code, vat_id) ==
    /\ <<country_code, vat_id>> # <<invoice.customer_country, invoice.customer_vat_id>>
    /\ invoice' = [invoice EXCEPT !.customer_country = country_code,
                                  !.customer_vat_id = vat_id]
    /\ UNCHANGED <<settings, table, objs, outcome, frame, items, item_rows>>

\* settings.INVOICING_TAXATION_POLICY is set to another value.
ConfigurePolicy(p) ==
    /\ p # settings.INVOICING_TAXATION_POLICY
    /\ settings' = [settings EXCEPT !.INVOICING_TAXATION_POLICY = p]
    /\ UNCHANGED <<table, objs, outcome, frame, invoice, items, item_rows>>

\* Item(invoice=invoice, unit_price=..., tax_rate=..., quantity=...,
\* discount=...): a new object, not saved yet.
Item_init(tax_rate, unit_price, quantity, discount) ==
    /\ Len(items) < MaxItems
    /\ items' = Append(items, [pk |-> None, tax_rate |-> tax_rate,
                               unit_price |-> unit_price,
                               quantity |-> quantity,
                               discount |-> discount])
    /\ UNCHANGED <<settings, table, objs, outcome, frame, invoice, item_rows>>

\* item.tax_rate = ...: the caller gives the object another rate, or none.
Item_assign_tax_rate(i, tax_rate) ==
    /\ i \in DOMAIN items
    /\ tax_rate # items[i].tax_rate
    /\ items' = [items EXCEPT ![i].tax_rate = tax_rate]
    /\ UNCHANGED <<settings, table, objs, outcome, frame, invoice, item_rows>>

\* The columns of invoicing_items the summary reads.
ItemRow(self) == [tax_rate |-> self.tax_rate, quantity |-> self.quantity,
                  unit_price |-> self.unit_price, discount |-> self.discount]

\* super(Item, self).save(**kwargs): the row is inserted under a new key, which
\* the object takes, or updated.
Item_super_save(self) ==
    LET pk == IF self.pk = None THEN Cardinality(DOMAIN item_rows) + 1 ELSE The(self.pk)
    IN  [self |-> [self EXCEPT !.pk = Some(pk)],
         rows |-> Put(item_rows, pk, ItemRow(self))]

\* Mutant: the rate is resolved whenever it is absent.
Item_save_resolving_always(i) ==
    /\ i \in DOMAIN items
    /\ LET self == IF items[i].tax_rate = None
                   THEN [items[i] EXCEPT !.tax_rate = Some(get_tax_rate(invoice, settings))]
                   ELSE items[i]
           saved == Item_super_save(self)
       IN  /\ items' = [items EXCEPT ![i] = saved.self]
           /\ item_rows' = saved.rows
    /\ UNCHANGED <<settings, table, objs, outcome, frame, invoice>>

\* Item.save
Item_save(i) ==
    /\ i \in DOMAIN items
    /\ LET self == IF items[i].tax_rate = None /\ items[i].pk = None
                   THEN [items[i] EXCEPT !.tax_rate = Some(get_tax_rate(invoice, settings))]
                   ELSE items[i]
           saved == Item_super_save(self)
       IN  /\ items' = [items EXCEPT ![i] = saved.self]
           /\ item_rows' = saved.rows
    /\ UNCHANGED <<settings, table, objs, outcome, frame, invoice>>

NextTax ==
    \/ \E country_code \in SupplierCountries : set_supplier_data(country_code)
    \/ \E country_code \in CustomerCountries, vat_id \in VatIds :
          set_customer_data(country_code, vat_id)
    \/ \E p \in PolicySettings : ConfigurePolicy(p)
    \/ \E tax_rate \in GivenRates, unit_price \in UnitPrices :
          Item_init(tax_rate, unit_price, DefaultQuantity, DefaultDiscount)
    \/ \E i \in 1..MaxItems, tax_rate \in GivenRates : Item_assign_tax_rate(i, tax_rate)
    \/ \E i \in 1..MaxItems : Item_save(i)

TaxSpec == Init /\ [][NextTax]_vars

(***************************************************************************)
(* The items of one invoice, of every quantity and discount, created and   *)
(* saved again; the billing data and the settings stay as constructed.     *)
(***************************************************************************)
NextSummary ==
    \/ \E tax_rate \in GivenRates, unit_price \in SummaryPrices,
          quantity \in Quantities, discount \in Discounts :
          Item_init(tax_rate, unit_price, quantity, discount)
    \/ \E i \in 1..MaxItems, tax_rate \in GivenRates : Item_assign_tax_rate(i, tax_rate)
    \/ \E i \in 1..MaxItems : Item_save(i)

SummarySpec == Init /\ [][NextSummary]_vars

(***************************************************************************)
(* The claims on numbering.                                                *)
(***************************************************************************)
\* Dates d and e lie in one window of the reset period.
SameWindow(period, d, e) ==
    CASE period = "DAILY" -> d = e
      [] period = "MONTHLY" -> d.year = e.year /\ d.month = e.month
      [] period = "YEARLY" -> d.year = e.year
      [] OTHER -> FALSE

\* The numbers stored for a type with date_issue in the window of date.
ScopeNumbers(rows, period, type, date) ==
    {The(rows[k].number) : k \in {x \in DOMAIN rows :
        /\ rows[x].type = type
        /\ SameWindow(period, rows[x].date_issue, date)}}

\* The greatest of a set of numbers, 0 for the empty set.
Greatest(S) == IF S = {} THEN 0 ELSE CHOOSE n \in S : \A m \in S : m <= n

Exceptions == {"ImproperlyConfigured", "TemplateSyntaxError"}

\* C1: under serialized first saves with one configured period, no two
\* stored invoices of one type in one window of the period carry the same
\* number.  Stated for the pairs every reading of "window" puts together:
\* their issue dates share a window and their tax points share a window.
C1_NoDuplicateInScope ==
    \A p, q \in DOMAIN table :
        (/\ p # q
         /\ table[p].type = table[q].type
         /\ SameWindow(settings.INVOICING_COUNTER_PERIOD,
                       table[p].date_issue, table[q].date_issue)
         /\ SameWindow(settings.INVOICING_COUNTER_PERIOD,
                       table[p].date_tax_point, table[q].date_tax_point))
        => table[p].number # table[q].number

C3_FailedSaveLeavesUnset ==
    \A pk \in DOMAIN outcome :
        (outcome[pk] \in Exceptions /\ pk \notin DOMAIN table) =>
            /\ objs[pk].number = None
            /\ objs[pk].full_number = ""

\* C4: a save between its line 242 and its line 247 holds the number it read:
\* as long as no row of its scope carries that number or a greater one, it is
\* 1 plus the greatest stored number of the scope, so two such saves of one
\* type and window hold the same number, and each stores it unchecked.
C4_RacingSavesHoldSameNumber ==
    /\ \A p \in DOMAIN frame :
          LET self == frame[p].self
              seen == Greatest(ScopeNumbers(table, settings.INVOICING_COUNTER_PERIOD,
                                            self.type, self.date_tax_point))
          IN  seen < The(self.number) => The(self.number) = seen + 1
    /\ \A p, q \in DOMAIN frame :
          LET a == frame[p].self
              b == frame[q].self
              seen == Greatest(ScopeNumbers(table, settings.INVOICING_COUNTER_PERIOD,
                                            a.type, a.date_tax_point))
          IN  (/\ a.type = b.type
               /\ SameWindow(settings.INVOICING_COUNTER_PERIOD,
                             a.date_tax_point, b.date_tax_point)
               /\ seen < The(a.number)
               /\ seen < The(b.number))
              => a.number = b.number

\* Two invoices of one type and one date, issue date and tax point alike,
\* both stored with the same number.
C4_Witness ==
    \E p, q \in DOMAIN table :
        /\ p # q
        /\ frame = <<>>
        /\ table[p].type = table[q].type
        /\ table[p].date_issue = table[p].date_tax_point
        /\ table[q].date_issue = table[q].date_tax_point
        /\ table[p].date_issue = table[q].date_issue
        /\ table[p].number = table[q].number

\* C9: the number a first save stores is 1 plus the greatest number stored
\* for the same type with date_issue in the window of the saved invoice's
\* date_tax_point, and 1 when there is none.
C9_NextNumberIsScopeMaxPlusOne ==
    [][\A pk \in DOMAIN table' \ DOMAIN table :
          table'[pk].number =
             Some(1 + Greatest(ScopeNumbers(table, settings.INVOICING_COUNTER_PERIOD,
                                            table'[pk].type, table'[pk].date_tax_point)))]_vars

\* Yearly, existing maximum 2 for invoices of 2024: the next one gets 3.
C9_Witness ==
    /\ settings.INVOICING_COUNTER_PERIOD = "YEARLY"
    /\ DOMAIN table = 1..3
    /\ \A pk \in 1..3 : /\ table[pk].type = "INVOICE"
                        /\ table[pk].date_issue.year = 2024
                        /\ table[pk].date_tax_point.year = 2024
                        /\ table[pk].number = Some(pk)

C5_TaxRateResolvedOnlyAtCreation ==
    [][\A i \in DOMAIN items :
          Item_save(i) =>
              /\ items[i].tax_rate # None => items'[i].tax_rate = items[i].tax_rate
              /\ (items[i].tax_rate = None /\ items[i].pk # None)
                     => items'[i].tax_rate = None
              /\ (items[i].tax_rate = None /\ items[i].pk = None)
                     => items'[i].tax_rate = Some(get_tax_rate(invoice, settings))
              /\ item_rows'[The(items'[i].pk)].tax_rate = items'[i].tax_rate]_vars

\* One item stored without a rate, which only a save after its creation
\* stores, and one stored with the rate of a configured policy while no policy
\* is configured any more.
C5_Witness ==
    /\ settings.INVOICING_TAXATION_POLICY = None
    /\ \E i, j \in DOMAIN items :
          /\ items[i].pk # None
          /\ items[j].pk # None
          /\ item_rows[The(items[i].pk)].tax_rate = None
          /\ item_rows[The(items[j].pk)].tax_rate = Some(10)

\* C6: the rate an Item.save resolves is that of the configured policy if one
\* is configured, whatever the supplier's country; else that of the EU policy
\* if the supplier's country is set and in the EU; else the default rate, with
\* no policy; it is one rate in every case.
C6_PolicyFirstMatch ==
    [][\A i \in DOMAIN items :
          (Item_save(i) /\ items[i].tax_rate = None /\ items[i].pk = None) =>
              LET configured == settings.INVOICING_TAXATION_POLICY
                  supplier == invoice.supplier_country
                  policy == taxation_policy(invoice, settings)
                  rate == items'[i].tax_rate
              IN  /\ rate \in {Some(0), Some(10), Some(20)}
                  /\ IF configured # None
                     THEN /\ policy = configured
                          /\ rate = Some(10)
                     ELSE IF supplier # None /\ The(supplier) \in {"SK", "CZ"}
                     THEN /\ policy = Some(EUTaxationPolicy)
                          /\ rate = Some(EUTaxationPolicy_get_tax_rate(
                                        invoice.customer_vat_id,
                                        invoice.customer_country, supplier))
                     ELSE /\ policy = None
                          /\ rate = Some(20)]_vars

\* An item stored with the rate of the configured policy for a supplier of
\* the EU.
C6_Witness ==
    /\ settings.INVOICING_TAXATION_POLICY # None
    /\ invoice.supplier_country = Some("SK")
    /\ \E pk \in DOMAIN item_rows : item_rows[pk].tax_rate = Some(10)

C8_VisibleOnlyForEUCrossBorder ==
    LET visible == is_supplier_vat_id_visible(invoice, item_rows)
        no_vat_charged == /\ \A pk \in DOMAIN item_rows :
                                item_rows[pk].tax_rate \in {None, Some(0)}
                          /\ vat(item_rows) \in {None, Some(0)}
        EU_customer == /\ invoice.customer_country # None
                       /\ The(invoice.customer_country) \in {"SK", "CZ"}
    IN  IF no_vat_charged
        THEN visible => (EU_customer /\ invoice.customer_country # invoice.supplier_country)
        ELSE visible

\* The amount of a row before tax, in hundredths of a cent:
\* quantity*unit_price*(100-discount)/100 of cents.
RowBase(row) == row.quantity * row.unit_price * (100 - row.discount)

\* C11: vat_summary has exactly one group per distinct tax_rate of the stored
\* items, the absent rate forming a group of its own; every item lies in
\* exactly one group, so the sizes of the groups sum to the number of items;
\* and the bases of the groups sum to the sum of
\* quantity*unit_price*(100-discount)/100 over all items.
C11_SummaryPartitionsItems ==
    LET summary == vat_summary(item_rows)
        rates == {item_rows[pk].tax_rate : pk \in DOMAIN item_rows}
        members(g) == {pk \in DOMAIN item_rows : item_rows[pk].tax_rate = g.rate}
    IN  /\ {g.rate : g \in summary} = rates
        /\ Cardinality(summary) = Cardinality(rates)
        /\ \A pk \in DOMAIN item_rows :
              Cardinality({g \in summary : pk \in members(g)}) = 1
        /\ Sum([g \in summary |-> Cardinality(members(g))], summary)
              = Cardinality(DOMAIN item_rows)
        /\ Sum([g \in summary |-> g.base], summary)
              = Sum([pk \in DOMAIN item_rows |-> RowBase(item_rows[pk])], DOMAIN item_rows)

\* Two items without a rate, one of 9.99 at a discount of 50 percent and one
\* of twice 9.99: one group, of the absent rate, with the base 24.975.
C11_Witness ==
    /\ DOMAIN item_rows = {1, 2}
    /\ item_rows[1].tax_rate = None
    /\ item_rows[2].tax_rate = None
    /\ vat_summary(item_rows) = {[rate |-> None, base |-> 249750, vat |-> None]}

\* The stored invoices of every type and window, the window being that of the
\* date the field gives, include one numbered 1.
ScopesStartAtOne(field) ==
    \A p \in DOMAIN table :
        \E q \in DOMAIN table :
            /\ table[q].type = table[p].type
            /\ SameWindow(settings.INVOICING_COUNTER_PERIOD, table[q][field], table[p][field])
            /\ table[q].number = Some(1)

\* C12: under serialized first saves with one configured period, every
\* (type, window) scope starts its own sequence at 1, whatever another scope
\* holds: the invoices stored for a type and a window include the number 1.
\* Stated for both readings of the window of an invoice, by its issue date and
\* by its tax point: one of them has to hold.
C12_EveryScopeStartsAtOne ==
    ScopesStartAtOne("date_issue") \/ ScopesStartAtOne("date_tax_point")
====
